---- MODULE Spec2Model ----
(***************************************************************************)
(* SRE-Orchestrator: the incident store (IncidentRepository), the          *)
(* background investigation task, the investigation runner                 *)
(* (investigate_incident) and the two-node agent graph (agent / tools).    *)
(*                                                                         *)
(* One asyncio event loop runs all tasks, so an action is the code that    *)
(* runs between two suspension points: the only real suspension points of  *)
(* a background task are the LLM call, the tool execution and the retry    *)
(* sleep (create_investigation_agent and the update_callback closure       *)
(* contain no await that yields).                                          *)
(***************************************************************************)
EXTENDS Integers, Sequences, FiniteSets, TLC

VARIABLES incidents, task, config, response, retry, manager, poll, callers

vars == <<incidents, task, config, response, retry, manager, poll, callers>>

(***************************************************************************)
(* Bounds of the model.                                                    *)
(***************************************************************************)
MaxCalls == 2       \* tool calls the LLM puts into one AI message
MaxTurns == 3       \* agent-node executions of one graph run before the graph
                    \* library stops the run with a recursion error
MaxRuns == 2        \* runs of investigate_incident_async on one incident id
MaxConcurrent == 2  \* incidents whose background tasks run concurrently
MaxTries == 3       \* largest max_attempts of a RetryConfig
MaxDelay == 3       \* largest initial_delay and max_delay of a RetryConfig (seconds)
MaxBase == 2        \* largest exponential_base of a RetryConfig
MaxOps == 4         \* calls of initialize and cleanup on one tool manager
MaxPolls == 3       \* requests of one poll_incident call
MaxTimeout == 2     \* largest timeout of a poll_incident call (seconds)
MaxCallers == 2     \* coroutines that call one tool manager at the same time

(***************************************************************************)
(* Program constants.                                                      *)
(***************************************************************************)
MaxAttempts == 3    \* DEFAULT_LLM_RETRY_CONFIG.max_attempts

\* the service handling one incident, and one direct call of the runner:
\* an investigation reads and writes nothing but its own incident and its own
\* graph state, so what holds of one investigation is checked on one
Ids == {1}

\* the ids of the service that runs investigations concurrently
ConcIds == 1..MaxConcurrent

AllIds == Ids \cup ConcIds

(***************************************************************************)
(* Python values.  None is the string "None"; every other string stands    *)
(* for itself.  "" is the empty (falsy) string.                            *)
(***************************************************************************)
None == "None"

Truthy(s) == s # None /\ s # ""

Statuses == {"pending", "in_progress", "completed", "failed"}

Terminal == {"completed", "failed"}

\* INVESTIGATION_SYSTEM_PROMPT
SystemPrompt == "PROMPT"

\* the description submitted with incident i: every incident has its own
DescriptionOf(i) == "DESC_" \o ToString(i)

Descriptions == {DescriptionOf(i) : i \in AllIds}

\* str(e) of the exceptions the collaborators raise
ExcMsgs == {"LLM API timeout", "Connection error"}

\* GraphRecursionError raised by the graph library
RecursionMsg == "Recursion limit reached"

\* TypeError raised by re.search on a content that is a list of blocks
TypeErrorMsg == "expected string or bytes-like object"

\* a final report in the prompt's format, written by the LLM about the
\* description it was given
Report(description) == "AI_REPORT on " \o description

IsReport(content) == \E d \in Descriptions : content = Report(d)

\* the arguments the LLM derives from the description it was given
ToolArgs(description) == "ARGS for " \o description

\* the output of the tool for a call: each call has its own
ToolOutput(call) == "TOOL_OUT_" \o ToString(call.id)

\* the exception a tool raises
ToolExcMsg == "connection refused"

\* f"Error executing tool: {str(e)}"
ToolErrorContent(msg) == "Error executing tool: " \o msg

(***************************************************************************)
(* Messages of the graph state.                                            *)
(***************************************************************************)
SystemMessage(c) == [type |-> "system", content |-> c, tool_calls |-> <<>>, tool_call_id |-> 0]

HumanMessage(c) == [type |-> "human", content |-> c, tool_calls |-> <<>>, tool_call_id |-> 0]

AIMessage(c, calls) == [type |-> "ai", content |-> c, tool_calls |-> calls, tool_call_id |-> 0]

ToolMessage(c, id) == [type |-> "tool", content |-> c, tool_calls |-> <<>>, tool_call_id |-> id]

\* the tool calls of the AI message emitted in agent turn t: ids are unique per run
ToolCalls(t, n, args) == [k \in 1..n |-> [id |-> (t - 1) * (MaxCalls + 1) + k, name |-> "get_pod_details", args |-> args]]

\* the initial state is the state of another investigation (the first incident's)
InitialMessages_Shared(description) == <<SystemMessage(SystemPrompt), HumanMessage(DescriptionOf(1))>>

\* initial_state["messages"] of investigate_incident
InitialMessages(description) == <<SystemMessage(SystemPrompt), HumanMessage(description)>>

\* the description the LLM reads in the messages it is given
DescriptionIn(messages) == messages[2].content

\* an answer of the LLM that consists of white space only
BlankAnswer == "   "

\* content of an AI message: empty, a final report in the prompt's format,
\* a list of content blocks (AIMessage.content may be a list), white space
AIContents(messages) == {"", Report(DescriptionIn(messages)), "AI_BLOCKS", BlankAnswer}

(***************************************************************************)
(* Agent graph: routing.                                                   *)
(***************************************************************************)
Last(seq) == seq[Len(seq)]

Range(seq) == {seq[k] : k \in 1..Len(seq)}

\* routing on the text of the last message instead of its tool calls
should_continue_OnContent(messages) ==
    IF Truthy(Last(messages).content) THEN "end" ELSE "tools"

\* should_continue: "tools" iff the last message carries tool calls
should_continue(messages) ==
    IF Len(Last(messages).tool_calls) > 0 THEN "tools" ELSE "end"

(***************************************************************************)
(* Investigation runner: extraction of the result from the message list.   *)
(***************************************************************************)
\* indexes of the messages whose content is truthy
NonEmptyIdx(messages) == {j \in 1..Len(messages) : Truthy(messages[j].content)}

SetMax(S) == CHOOSE x \in S : \A y \in S : y <= x

SetMin(S) == CHOOSE x \in S : \A y \in S : x <= y

\* final_message.content: the last message with a truthy content, None if none
FinalContent(messages) ==
    IF NonEmptyIdx(messages) = {} THEN None
    ELSE messages[SetMax(NonEmptyIdx(messages))].content

\* re.search on a list of content blocks raises TypeError
RegexRaises(content) == content = "AI_BLOCKS"

\* extract_root_cause: the text after the ROOT CAUSE marker, else a fallback
\* pattern, else the first sentence of the content, stripped (which is empty
\* for a content of white space)
extract_root_cause(content) ==
    CASE ~Truthy(content) -> None
      [] content = BlankAnswer -> ""
      [] OTHER -> "root cause of " \o content

\* extract_confidence: the CONFIDENCE marker, else keyword scan, else medium
extract_confidence(content) ==
    CASE ~Truthy(content) -> "medium"
      [] IsReport(content) -> "high"
      [] OTHER -> "medium"

\* extract_recommendations: the lines of the RECOMMENDATIONS section
extract_recommendations(content) ==
    CASE ~Truthy(content) -> <<>>
      [] IsReport(content) -> <<"Increase memory limit">>
      [] content = SystemPrompt -> <<"[Actionable recommendations]">>
      [] OTHER -> <<>>

\* the EVIDENCE: regex (case-insensitive) matches the final report and also
\* the system prompt ("... to gather evidence:")
HasEvidenceMarker(content) == IsReport(content) \/ content = SystemPrompt

RECURSIVE FlattenCalls(_)
\* the tool calls of all messages, in message order
FlattenCalls(messages) ==
    IF messages = <<>> THEN <<>>
    ELSE Head(messages).tool_calls \o FlattenCalls(Tail(messages))

\* the tool_calls list of the result: {tool, args} per call
ExtractToolCalls(messages) ==
    LET calls == FlattenCalls(messages)
    IN [k \in 1..Len(calls) |-> [tool |-> calls[k].name, args |-> calls[k].args]]

\* content of the first message after position j whose content is truthy
NextResponse(messages, j) ==
    LET later == {m \in NonEmptyIdx(messages) : m > j}
    IN IF later = {} THEN "No response" ELSE messages[SetMin(later)].content

RECURSIVE CallEvidence(_, _)
\* extract_evidence, first loop: one item per tool call of each message
CallEvidence(messages, j) ==
    IF j > Len(messages) THEN <<>>
    ELSE [k \in 1..Len(messages[j].tool_calls) |->
             [source |-> messages[j].tool_calls[k].name,
              content |-> NextResponse(messages, j)]]
         \o CallEvidence(messages, j + 1)

RECURSIVE MarkerEvidence(_)
\* extract_evidence, second loop: one agent_analysis item per EVIDENCE marker
MarkerEvidence(messages) ==
    IF messages = <<>> THEN <<>>
    ELSE (IF HasEvidenceMarker(Head(messages).content)
          THEN <<[source |-> "agent_analysis", content |-> Head(messages).content]>>
          ELSE <<>>)
         \o MarkerEvidence(Tail(messages))

extract_evidence(messages) == CallEvidence(messages, 1) \o MarkerEvidence(messages)

\* extract_evidence runs re.search on every truthy content
EvidenceRaises(messages) == \E j \in 1..Len(messages) : RegexRaises(messages[j].content)

\* investigation_result of investigate_incident
CompletedResult(messages) ==
    [status |-> "completed",
     root_cause |-> extract_root_cause(FinalContent(messages)),
     confidence |-> extract_confidence(FinalContent(messages)),
     evidence |-> extract_evidence(messages),
     reasoning |-> FinalContent(messages),
     recommendations |-> extract_recommendations(FinalContent(messages)),
     tool_calls |-> ExtractToolCalls(messages),
     error |-> None]

\* error_result of investigate_incident
ErrorResult(msg) ==
    [status |-> "failed",
     root_cause |-> None,
     confidence |-> None,
     evidence |-> <<>>,
     reasoning |-> None,
     recommendations |-> <<>>,
     tool_calls |-> <<>>,
     error |-> msg]

\* the exception raised between the return of the graph and the construction
\* of investigation_result, None if that code raises nothing
ExtractionError(messages) ==
    CASE FinalContent(messages) = None -> "No response from agent"
      [] RegexRaises(FinalContent(messages)) -> TypeErrorMsg
      [] EvidenceRaises(messages) -> TypeErrorMsg
      [] OTHER -> None

(***************************************************************************)
(* Incident store: the Incident record and the writes of the repository.   *)
(***************************************************************************)
InvestigationStep(name, status) == [step_name |-> name, status |-> status]

\* Incident(description=description, status="pending") and the initial step
NewIncident(description) ==
    [description |-> description,
     status |-> "pending",
     completed_at |-> None,
     evidence |-> <<>>,
     suggested_root_cause |-> None,
     confidence_score |-> None,
     investigation_steps |-> <<InvestigationStep("incident_created", "completed")>>,
     error_message |-> None]

AppendStep(inc, name, status) ==
    [inc EXCEPT !.investigation_steps = Append(@, InvestigationStep(name, status))]

\* _investigate_incident up to the creation of the agent
BeginInvestigation(inc) ==
    AppendStep([inc EXCEPT !.status = "in_progress"], "investigation_started", "started")

\* the update_callback closure of _investigate_incident
ClosureCallback(inc, status) ==
    IF status = "investigating"
    THEN AppendStep(inc, "investigation_progress", "started")
    ELSE inc

\* the evidence dict written when the result is completed
CompletedEvidence(result) ==
    [tool_calls |-> result.tool_calls,
     reasoning |-> result.reasoning,
     recommendations |-> result.recommendations]
    @@ (IF result.evidence # <<>>
        THEN [collected_evidence |-> result.evidence]
        ELSE <<>>)

\* the partial_evidence dict built when the result is failed
PartialEvidence(result) ==
    (IF result.tool_calls # <<>> THEN [tool_calls |-> result.tool_calls] ELSE <<>>)
    @@ (IF result.evidence # <<>> THEN [collected_evidence |-> result.evidence] ELSE <<>>)
    @@ (IF Truthy(result.reasoning) THEN [partial_reasoning |-> result.reasoning] ELSE <<>>)
    @@ (IF Truthy(result.root_cause) THEN [partial_root_cause |-> result.root_cause] ELSE <<>>)

\* the status is written and the other fields of the result are not
ApplyResult_StatusOnly(inc, result) ==
    [inc EXCEPT !.status = result.status]

\* _investigate_incident: "Update incident with investigation results"
ApplyResult(inc, result) ==
    IF result.status = "completed"
    THEN AppendStep(
             [inc EXCEPT !.status = "completed",
                         !.suggested_root_cause = result.root_cause,
                         !.confidence_score = result.confidence,
                         !.completed_at = "stamped",
                         !.evidence = CompletedEvidence(result)],
             "investigation_completed", "completed")
    ELSE AppendStep(
             [inc EXCEPT !.status = "failed",
                         !.error_message = result.error,
                         !.completed_at = "stamped",
                         !.suggested_root_cause =
                             IF Truthy(result.root_cause) THEN result.root_cause ELSE @,
                         !.confidence_score =
                             IF Truthy(result.root_cause) THEN result.confidence ELSE @,
                         !.evidence =
                             IF PartialEvidence(result) # <<>> THEN PartialEvidence(result) ELSE @],
             "investigation_failed", "failed")

\* the except branch without the assignment of the status
TaskBoundaryFailure_NoStatus(inc, msg) ==
    AppendStep(
        [inc EXCEPT !.error_message = msg,
                    !.completed_at = "stamped"],
        "investigation_failed", "failed")

\* the except branch without the completed_at stamp
TaskBoundaryFailure_NoStamp(inc, msg) ==
    AppendStep(
        [inc EXCEPT !.status = "failed",
                    !.error_message = msg],
        "investigation_failed", "failed")

\* investigate_incident_async: the except branch at the task boundary
TaskBoundaryFailure(inc, msg) ==
    AppendStep(
        [inc EXCEPT !.status = "failed",
                    !.error_message = msg,
                    !.completed_at = "stamped"],
        "investigation_failed", "failed")

\* the details argument of update_status: absent, or a dict with an "error" key
NoDetails == "None"

DetailsArgs == {NoDetails, "LLM API timeout"}

\* update_status
UpdateStatusOf(inc, status, details) ==
    IF status = "failed" /\ details # NoDetails
    THEN [inc EXCEPT !.status = status,
                     !.error_message = details,
                     !.completed_at = "stamped"]
    ELSE IF status = "completed"
    THEN [inc EXCEPT !.status = status, !.completed_at = "stamped"]
    ELSE [inc EXCEPT !.status = status]

(***************************************************************************)
(* The update_callback argument of investigate_incident.                   *)
(*   none     no callback is passed                                        *)
(*   closure  the closure of _investigate_incident (appends a step)        *)
(*   mock     a callback that returns normally                             *)
(*   raise_X  a callback that raises when called with status X             *)
(*   raise_always  a callback that raises on every call                    *)
(***************************************************************************)
CallerCallbacks == {"none", "mock", "raise_investigating", "raise_completed", "raise_failed", "raise_always"}

CallbackMsg == "callback failed"

CallbackRaises(cb, status) ==
    \/ cb = "raise_always"
    \/ cb = "raise_investigating" /\ status = "investigating"
    \/ cb = "raise_completed" /\ status = "completed"
    \/ cb = "raise_failed" /\ status = "failed"

\* the statuses the callback was called with, if there is a callback
Called(cb, statuses) == IF cb = "none" THEN <<>> ELSE statuses

\* investigate_incident, except branch: build error_result, call the callback
\* with "failed" (outside any try), return error_result
RunnerFailure(cb, msg, before) ==
    IF CallbackRaises(cb, "failed")
    THEN [kind |-> "raise", msg |-> CallbackMsg, result |-> ErrorResult(msg),
          calls |-> Called(cb, before \o <<"failed">>)]
    ELSE [kind |-> "return", msg |-> None, result |-> ErrorResult(msg),
          calls |-> Called(cb, before \o <<"failed">>)]

\* investigate_incident after the graph returned: extraction, the "completed"
\* callback, return investigation_result; any exception goes to the except branch
RunnerSuccess(cb, messages) ==
    IF ExtractionError(messages) # None
    THEN RunnerFailure(cb, ExtractionError(messages), <<>>)
    ELSE IF CallbackRaises(cb, "completed")
    THEN RunnerFailure(cb, CallbackMsg, <<"completed">>)
    ELSE [kind |-> "return", msg |-> None, result |-> CompletedResult(messages),
          calls |-> Called(cb, <<"completed">>)]

(***************************************************************************)
(* Configuration of the service, fixed at startup, and the response of the *)
(* last submit request.                                                    *)
(***************************************************************************)
\* app.state.mcp_tool_manager: None, created but not initialized, initialized
ToolManagerStates == {"absent", "created", "initialized"}

\* os.getenv("LLM_API_KEY"): unset, empty, set
ApiKeys == {None, "", "sk-key"}

Configs == [tool_manager : ToolManagerStates, llm_api_key : ApiKeys]

GoodConfig == [tool_manager |-> "initialized", llm_api_key |-> "sk-key"]

NoResponse == [code |-> 0, incident_id |-> 0, status |-> None, detail |-> None]

\* HTTPException(status_code=503, detail=...)
ServiceUnavailable(detail) == [code |-> 503, incident_id |-> 0, status |-> None, detail |-> detail]

\* the response is built after the spawned task ran its first step
Accepted_AfterStart(i, inc) ==
    [code |-> 202, incident_id |-> i, status |-> BeginInvestigation(inc).status, detail |-> None]

\* NewIncidentResponse(incident_id=incident.id, status=incident.status), 202
Accepted(i, inc) == [code |-> 202, incident_id |-> i, status |-> inc.status, detail |-> None]

\* get_incident: the record as it is when the response is built
Fetched(i, inc) ==
    [code |-> 200, incident_id |-> i, status |-> inc.status, detail |-> None, incident |-> inc]

\* get_incident: HTTPException 404
NotFound(i) == [code |-> 404, incident_id |-> i, status |-> None, detail |-> "Incident not found"]

(***************************************************************************)
(* retry_async: one call of the retry runner with a RetryConfig, on an     *)
(* operation that returns or raises at every invocation.                   *)
(***************************************************************************)
\* exception classes: ConnectionError and ValueError derive from Exception
RaisedTypes == {"ConnectionError", "ValueError"}

\* isinstance(e, exc_type)
IsInstance(e, exc_type) == exc_type = "Exception" \/ e.type = exc_type

\* an exception object: its class and the attempt that raised it
Exc(type, k) == [type |-> type, attempt |-> k]

NoException == Exc("None", 0)

\* "raise None": TypeError, exceptions must derive from BaseException
RaiseNoneError == Exc("TypeError", 0)

\* the retryable_exceptions argument: absent (None), or a list of classes
RetryableArgs ==
    {[given |-> FALSE, types |-> {}],
     [given |-> TRUE, types |-> {}],
     [given |-> TRUE, types |-> {"ConnectionError"}],
     [given |-> TRUE, types |-> {"Exception"}]}

\* RetryConfig.__init__: "retryable_exceptions or [Exception]"
RetryConfig(max_attempts, initial_delay, max_delay, exponential_base, retryable_exceptions) ==
    [max_attempts |-> max_attempts,
     initial_delay |-> initial_delay,
     max_delay |-> max_delay,
     exponential_base |-> exponential_base,
     retryable_exceptions |-> IF retryable_exceptions.given /\ retryable_exceptions.types # {}
                              THEN retryable_exceptions.types
                              ELSE {"Exception"}]

RetryConfigs ==
    {RetryConfig(m, d, x, b, r) :
        m \in 0..MaxTries, d \in 0..MaxDelay, x \in 0..MaxDelay, b \in 0..MaxBase, r \in RetryableArgs}

Min(a, b) == IF a <= b THEN a ELSE b

\* any(isinstance(e, exc_type) for exc_type in config.retryable_exceptions)
is_retryable(e, cfg) == \E exc_type \in cfg.retryable_exceptions : IsInstance(e, exc_type)

NoRetryOutcome == [kind |-> "none", value |-> 0, exc |-> NoException]

\* calls: per invocation of the operation, the exception it raised (NoException
\* if it returned); sleeps: the delays passed to asyncio.sleep, in order
NoRetry ==
    [pc |-> "idle", config |-> RetryConfig(0, 0, 0, 0, [given |-> FALSE, types |-> {}]),
     attempt |-> 0, delay |-> 0, last_exception |-> NoException,
     calls |-> <<>>, sleeps |-> <<>>, outcome |-> NoRetryOutcome]

\* the end of the loop raises a new error that wraps the last exception
RetryExhausted_Wrapped(r) ==
    [r EXCEPT !.pc = "raised",
              !.outcome = [kind |-> "raise", value |-> 0, exc |-> Exc("RuntimeError", r.attempt)]]

\* the end of the for loop: "raise last_exception"
RetryExhausted(r) ==
    [r EXCEPT !.pc = "raised",
              !.outcome = [kind |-> "raise", value |-> 0,
                           exc |-> IF r.last_exception = NoException
                                   THEN RaiseNoneError
                                   ELSE r.last_exception]]

(***************************************************************************)
(* MCPToolManager: one manager object, its client and its cached tools.    *)
(***************************************************************************)
Servers == {"kubernetes", "prometheus"}

\* the tools a server offers
ToolsOf(server) == {server \o ".tool_" \o ToString(k) : k \in 1..1}

\* the flat tool list over a set of servers
FlatTools(servers) == UNION {ToolsOf(server) : server \in servers}

\* self._tools is None
NoTools == {None}

\* self._client is None
NoClient == 0

\* one completed call of the manager: the method, how it ended, the value it
\* returned, its last log message, the servers that could not be reached in
\* the call, and the numbers of clients created and of get_tools requests sent
\* by the manager up to the end of the call
ManagerCall(op, kind, value, logged, m) ==
    [op |-> op, kind |-> kind, value |-> value, logged |-> logged, down |-> m.down,
     clients_created |-> m.clients_created, connects |-> m.connects]

\* MCPToolManager.__init__
NewManager(mcp_config) ==
    [mcp_config |-> mcp_config, client |-> NoClient, tools |-> NoTools, initialized |-> FALSE,
     pc |-> "idle", down |-> {}, clients_created |-> 0, connects |-> 0, history |-> <<>>]

NoManager == NewManager({})

\* a call of the manager ends: it is recorded and the manager is idle again
EndCall(m, op, kind, value, logged) ==
    [m EXCEPT !.pc = "idle", !.history = Append(@, ManagerCall(op, kind, value, logged, m))]

\* initialize, except branch: empty tool list, marked initialized, re-raise
InitializeFailed(m) ==
    EndCall([m EXCEPT !.tools = {}, !.initialized = TRUE], "initialize", "raise", NoTools,
            "Failed to initialize MCP Tool Manager")

\* the coroutines that share one manager
Callers == 1..MaxCallers

\* a coroutine that has not called the manager yet; op is the method it calls,
\* pc its position ("connecting": suspended at "await self._client.get_tools()"),
\* client the client whose get_tools() it awaits
NoCaller == [pc |-> "none", op |-> "none", client |-> NoClient]

NoCallers == [c \in Callers |-> NoCaller]

\* cleanup, finally branch
CleanupReset(m, logged) ==
    EndCall([m EXCEPT !.client = NoClient, !.tools = NoTools, !.initialized = FALSE],
            "cleanup", "return", NoTools, logged)

(***************************************************************************)
(* OrchestratorClient.poll_incident (CLI): one call, its requests to the   *)
(* service and its clock (asyncio loop time, in seconds).                  *)
(***************************************************************************)
\* the callback argument: absent, the progress display of the CLI, or a
\* callback that raises
PollCallbacks == {"none", "progress", "raises"}

\* the n-th response of get_incident: the incident data with its status
PollResponse(status, n) == [status |-> status, n |-> n]

NoPollResponse == PollResponse(None, 0)

NoPollOutcome == [kind |-> "none", value |-> NoPollResponse, exc |-> None]

NoPoll ==
    [pc |-> "idle", timeout |-> 0, interval |-> 0, callback |-> "none",
     start_time |-> 0, now |-> 0, responses |-> <<>>, callback_calls |-> 0,
     outcome |-> NoPollOutcome]

PollReturn(p, incident) ==
    [p EXCEPT !.pc = "returned",
              !.outcome = [kind |-> "return", value |-> incident, exc |-> None]]

PollRaise(p, exc) ==
    [p EXCEPT !.pc = "raised",
              !.outcome = [kind |-> "raise", value |-> NoPollResponse, exc |-> exc]]

(***************************************************************************)
(* Tasks: one per incident id (the background task of the scheduler) or    *)
(* per direct invocation of investigate_incident.                          *)
(***************************************************************************)
NoOutcome == [kind |-> "none", msg |-> None, result |-> ErrorResult(None), calls |-> <<>>]

NoRoute == [on |-> HumanMessage(""), to |-> "none"]

\* generate_correlation_id: a fresh uuid for every call of investigate_incident
GeneratedCorrelationId(i, run) == "generated-" \o ToString(i) \o "-" \o ToString(run)

\* the correlation_id argument of a direct call: absent or given
CallerCorrelationIds == {None, "corr-123"}

\* tools_ran and llm_answered record the history of the run: whether the tools
\* node executed tool calls, whether an LLM call returned a message; trace is
\* the sequence of nodes the current graph execution has run, routed the last
\* routing decision of should_continue, tool_error the message of the
\* exception ToolNode raised in the last tools step (None if it returned),
\* tool_failed the id of the call that raised it (0 if none, and 0 again once
\* the agent node has run)
NoTask ==
    [pc |-> "none", caller |-> "none", callback |-> "none", run |-> 0,
     description |-> None, correlation_id |-> None,
     messages |-> <<>>, investigation_status |-> "in_progress",
     llm_attempt |-> 0, graph_attempt |-> 0, turns |-> 0, llm_raised |-> 0,
     trace |-> <<>>, routed |-> NoRoute, tool_error |-> None, tool_failed |-> 0,
     callbacks |-> <<>>, tools_ran |-> FALSE, llm_answered |-> FALSE, outcome |-> NoOutcome, caught |-> None]

\* the state of a run at its first LLM call: initial_state of investigate_incident,
\* first attempt of the graph, first attempt of the LLM call in the agent node
GraphStart(t) ==
    [t EXCEPT !.pc = "llm",
              !.messages = InitialMessages(t.description),
              !.investigation_status = "in_progress",
              !.llm_attempt = 1,
              !.turns = 1,
              !.trace = <<>>,
              !.routed = NoRoute,
              !.tool_error = None,
              !.tool_failed = 0]

\* the end of a run: the outcome of investigate_incident (its result carries
\* the correlation id) is recorded and, for a background task, written to the
\* incident (or caught at the task boundary)
Finished(t, out) ==
    [t EXCEPT !.pc = "done",
              !.investigation_status = "in_progress",
              !.llm_attempt = 0,
              !.turns = 0,
              !.outcome = [out EXCEPT !.result = [correlation_id |-> t.correlation_id] @@ @],
              !.callbacks = @ \o out.calls,
              !.caught = IF out.kind = "raise" THEN out.msg ELSE @]

Settle(inc, out) ==
    IF out.kind = "return" THEN ApplyResult(inc, out.result)
    ELSE TaskBoundaryFailure(inc, out.msg)

\* Complete(i, t, inc, outcome): the task i, whose state is t and whose incident
\* is inc, ends with the given outcome of investigate_incident
Complete(i, t, inc, outcome) ==
    \E out \in {outcome} :
       /\ task' = [task EXCEPT ![i] = Finished(t, out)]
       /\ incidents' = IF t.caller = "repository"
                       THEN [incidents EXCEPT ![i] = Settle(inc, out)]
                       ELSE incidents

FreeIds == {i \in DOMAIN task : task[i].pc = "none"}

Init ==
    /\ incidents = <<>>
    /\ task = [i \in Ids |-> NoTask]
    /\ config \in Configs
    /\ response = NoResponse
    /\ retry = NoRetry
    /\ poll = NoPoll
    /\ callers = NoCallers
    /\ manager = NoManager

\* create_incident with the key check "api_key is None" (an empty key passes)
Submit_KeyNoneOnly ==
    /\ UNCHANGED <<config, retry, manager, poll, callers>>
    /\ IF config.tool_manager # "initialized"
       THEN /\ response' = ServiceUnavailable("MCP tools not available. Investigation cannot proceed.")
            /\ UNCHANGED <<incidents, task>>
       ELSE IF config.llm_api_key = None
       THEN /\ response' = ServiceUnavailable("LLM not configured. Investigation cannot proceed.")
            /\ UNCHANGED <<incidents, task>>
       ELSE /\ FreeIds # {}
            /\ LET i == SetMin(FreeIds)
               IN /\ incidents' = (i :> NewIncident(DescriptionOf(i))) @@ incidents
                  /\ task' = [task EXCEPT ![i] =
                                 [NoTask EXCEPT !.pc = "spawned", !.caller = "repository",
                                                !.callback = "closure", !.run = 1]]
                  /\ response' = Accepted(i, incidents'[i])

\* create_incident (API): 503 without an initialized tool manager or without
\* an LLM key; otherwise create_incident_sync, asyncio.create_task and the
\* response built from the incident, with no await in between
Submit ==
    /\ UNCHANGED <<config, retry, manager, poll, callers>>
    /\ IF config.tool_manager # "initialized"
       THEN /\ response' = ServiceUnavailable("MCP tools not available. Investigation cannot proceed.")
            /\ UNCHANGED <<incidents, task>>
       ELSE IF ~Truthy(config.llm_api_key)
       THEN /\ response' = ServiceUnavailable("LLM not configured. Investigation cannot proceed.")
            /\ UNCHANGED <<incidents, task>>
       ELSE /\ FreeIds # {}
            /\ LET i == SetMin(FreeIds)
               IN /\ incidents' = (i :> NewIncident(DescriptionOf(i))) @@ incidents
                  /\ task' = [task EXCEPT ![i] =
                                 [NoTask EXCEPT !.pc = "spawned", !.caller = "repository",
                                                !.callback = "closure", !.run = 1]]
                  /\ response' = Accepted(i, incidents'[i])

\* investigate_incident_async from its start to the first LLM call: status
\* in_progress, create_investigation_agent, the "investigating" callback
TaskStart(i) ==
    /\ task[i].pc = "spawned"
    /\ task[i].caller = "repository"
    /\ UNCHANGED <<config, response, retry, manager, poll, callers>>
    /\ \E inc0 \in {BeginInvestigation(incidents[i])},
          inc1 \in {ClosureCallback(AppendStep(BeginInvestigation(incidents[i]),
                                               "agent_created", "completed"), "investigating")} :
          \/ \E msg \in ExcMsgs :
                \* create_investigation_agent raises
                /\ incidents' = [incidents EXCEPT ![i] = TaskBoundaryFailure(inc0, msg)]
                /\ task' = [task EXCEPT ![i] = [@ EXCEPT !.pc = "done", !.caught = msg]]
          \/ /\ incidents' = [incidents EXCEPT ![i] = inc1]
             /\ task' = [task EXCEPT ![i] =
                            GraphStart([@ EXCEPT !.description = incidents[i].description,
                                                 !.correlation_id = GeneratedCorrelationId(i, task[i].run),
                                                 !.graph_attempt = 1,
                                                 !.callbacks = <<"investigating">>])]

\* the incident of task i (only background tasks have one)
IncidentOf(i) == IF i \in DOMAIN incidents THEN incidents[i] ELSE NewIncident(DescriptionOf(i))

\* agent.ainvoke returned: the runner extracts the result and the run ends
GraphReturned(i, t) == Complete(i, t, IncidentOf(i), RunnerSuccess(t.callback, t.messages))

\* the retry invokes the graph with the state the failed invocation left
GraphRaised_NoReset(i, t, msg) ==
    IF t.graph_attempt < MaxAttempts
    THEN /\ task' = [task EXCEPT ![i] = [t EXCEPT !.graph_attempt = @ + 1, !.pc = "llm",
                                                   !.llm_attempt = 1]]
         /\ UNCHANGED incidents
    ELSE Complete(i, [t EXCEPT !.messages = <<>>], IncidentOf(i), RunnerFailure(t.callback, msg, <<>>))

\* agent.ainvoke raised msg: retry_async of investigate_incident invokes the
\* graph again with the same initial_state, or gives up after MaxAttempts
GraphRaised(i, t, msg) ==
    IF t.graph_attempt < MaxAttempts
    THEN /\ task' = [task EXCEPT ![i] = GraphStart([t EXCEPT !.graph_attempt = @ + 1])]
         /\ UNCHANGED incidents
    ELSE Complete(i, [t EXCEPT !.messages = <<>>], IncidentOf(i), RunnerFailure(t.callback, msg, <<>>))

\* the conditional edge after the agent node; the graph library raises a
\* recursion error when the run would exceed its step limit
AfterAgent(i, state) ==
    \E t \in {[state EXCEPT !.trace = Append(@, "agent"),
                            !.routed = [on |-> Last(state.messages),
                                        to |-> should_continue(state.messages)]]} :
       IF t.routed.to = "tools"
       THEN IF t.turns >= MaxTurns
            THEN GraphRaised(i, t, RecursionMsg)
            ELSE /\ task' = [task EXCEPT ![i] = [t EXCEPT !.pc = "tools"]]
                 /\ UNCHANGED incidents
       ELSE GraphReturned(i, t)

\* agent_node: the LLM call returns an AI message, with n tool calls (and no
\* text) or with content c and no tool call
LLMReturn(i) ==
    /\ task[i].pc = "llm"
    /\ UNCHANGED <<config, response, retry, manager, poll, callers>>
    /\ \E n \in 0..MaxCalls, c \in AIContents(task[i].messages) :
          /\ n > 0 => c = ""
          /\ AfterAgent(i, [task[i] EXCEPT
                 !.messages = Append(@, AIMessage(c, ToolCalls(task[i].turns, n,
                                                       ToolArgs(DescriptionIn(task[i].messages))))),
                 !.llm_answered = TRUE,
                 !.llm_raised = 0,
                 !.tool_failed = 0])

\* the exception of the exhausted LLM retries propagates out of the agent node
LLMRaise_Propagates(i) ==
    /\ task[i].pc = "llm"
    /\ UNCHANGED <<config, response, retry, manager, poll, callers>>
    /\ IF task[i].llm_attempt < MaxAttempts
       THEN /\ task' = [task EXCEPT ![i] = [@ EXCEPT !.llm_attempt = @ + 1, !.llm_raised = @ + 1, !.tool_failed = 0]]
            /\ UNCHANGED incidents
       ELSE \E msg \in ExcMsgs : GraphRaised(i, [task[i] EXCEPT !.llm_raised = @ + 1, !.tool_failed = 0], msg)

\* agent_node: the LLM call raises; retry_async retries it, and after
\* MaxAttempts the node returns investigation_status failed and no message
\* (llm_raised: the LLM calls that raised since the LLM last answered)
LLMRaise(i) ==
    /\ task[i].pc = "llm"
    /\ UNCHANGED <<config, response, retry, manager, poll, callers>>
    /\ IF task[i].llm_attempt < MaxAttempts
       THEN /\ task' = [task EXCEPT ![i] = [@ EXCEPT !.llm_attempt = @ + 1, !.llm_raised = @ + 1, !.tool_failed = 0]]
            /\ UNCHANGED incidents
       ELSE AfterAgent(i, [task[i] EXCEPT !.investigation_status = "failed", !.llm_raised = @ + 1,
                                             !.tool_failed = 0])

\* the Tool messages are appended in the reverse order of the calls
ToolMessages_Reversed(calls, contents) ==
    [k \in 1..Len(calls) |-> ToolMessage(contents[Len(calls) + 1 - k], calls[Len(calls) + 1 - k].id)]

\* the Tool messages of the tools node for the calls of the last AI message,
\* contents[k] being the content of the message for calls[k]
ToolMessages(calls, contents) == [k \in 1..Len(calls) |-> ToolMessage(contents[k], calls[k].id)]

\* the tools node ends the graph run instead of returning to the agent
AfterTools_ToEnd(i, state) ==
    \E t \in {[state EXCEPT !.trace = Append(@, "tools")]} : GraphReturned(i, t)

\* the edge tools -> agent
AfterTools(i, state) ==
    \E t \in {[state EXCEPT !.trace = Append(@, "tools")]} :
       /\ task' = [task EXCEPT ![i] = [t EXCEPT !.pc = "llm", !.turns = @ + 1, !.llm_attempt = 1]]
       /\ UNCHANGED incidents

\* tool_node_with_logging: ToolNode returns one Tool message per call
ToolsReturn(i) ==
    /\ task[i].pc = "tools"
    /\ UNCHANGED <<config, response, retry, manager, poll, callers>>
    /\ LET calls == Last(task[i].messages).tool_calls
       IN AfterTools(i, [task[i] EXCEPT
              !.messages = @ \o ToolMessages(calls, [k \in 1..Len(calls) |-> ToolOutput(calls[k])]),
              !.tool_error = None,
              !.tool_failed = 0,
              !.tools_ran = TRUE])

\* the exception of ToolNode propagates out of the tools node
ToolsRaise_Propagates(i) ==
    /\ task[i].pc = "tools"
    /\ UNCHANGED <<config, response, retry, manager, poll, callers>>
    /\ \E call \in Range(Last(task[i].messages).tool_calls) :
          GraphRaised(i, [task[i] EXCEPT !.tool_error = ToolExcMsg, !.tool_failed = call.id,
                                         !.tools_ran = TRUE], ToolExcMsg)

\* tool_node_with_logging: ToolNode raises the exception of one of the calls;
\* every call gets an error message
ToolsRaise(i) ==
    /\ task[i].pc = "tools"
    /\ UNCHANGED <<config, response, retry, manager, poll, callers>>
    /\ LET calls == Last(task[i].messages).tool_calls
       IN \E call \in Range(calls) :
          AfterTools(i, [task[i] EXCEPT
              !.messages = @ \o ToolMessages(calls, [k \in 1..Len(calls) |-> ToolErrorContent(ToolExcMsg)]),
              !.tool_error = ToolExcMsg,
              !.tool_failed = call.id,
              !.tools_ran = TRUE])

TaskStep(i) ==
    \/ TaskStart(i)
    \/ LLMReturn(i)
    \/ LLMRaise(i)
    \/ ToolsReturn(i)
    \/ ToolsRaise(i)

Next ==
    \/ Submit
    \/ \E i \in Ids : TaskStart(i)
    \/ \E i \in Ids : LLMReturn(i)
    \/ \E i \in Ids : LLMRaise(i)
    \/ \E i \in Ids : ToolsReturn(i)
    \/ \E i \in Ids : ToolsRaise(i)

Spec == Init /\ [][Next]_vars

\* while some task can take a step, some task eventually takes one: the event
\* loop runs every ready task, and every awaited call returns or raises
FairSpec == Spec /\ WF_vars(\E i \in Ids : TaskStep(i))

(***************************************************************************)
(* The service with MaxConcurrent incidents, whose background tasks        *)
(* interleave at their suspension points.                                  *)
(***************************************************************************)
InitConc ==
    /\ incidents = <<>>
    /\ task = [i \in ConcIds |-> NoTask]
    /\ config = GoodConfig
    /\ response = NoResponse
    /\ retry = NoRetry
    /\ poll = NoPoll
    /\ callers = NoCallers
    /\ manager = NoManager

NextConc ==
    \/ Submit
    \/ \E i \in ConcIds : TaskStart(i)
    \/ \E i \in ConcIds : LLMReturn(i)
    \/ \E i \in ConcIds : LLMRaise(i)
    \/ \E i \in ConcIds : ToolsReturn(i)
    \/ \E i \in ConcIds : ToolsRaise(i)

SpecConc == InitConc /\ [][NextConc]_vars

(***************************************************************************)
(* The repository as an object: besides the scheduler, a client may call   *)
(* update_status on any stored incident at any time, and may run           *)
(* investigate_incident_async again on an incident id.                     *)
(***************************************************************************)
\* update_status(incident_id, status, details)
UpdateStatus(i, status, details) ==
    /\ i \in DOMAIN incidents
    /\ incidents' = [incidents EXCEPT ![i] = UpdateStatusOf(@, status, details)]
    /\ UNCHANGED <<task, config, response, retry, manager, poll, callers>>

\* a further call of investigate_incident_async on the id of a finished run
Rerun(i) ==
    /\ i \in DOMAIN incidents
    /\ task[i].pc = "done"
    /\ task[i].run < MaxRuns
    /\ task' = [task EXCEPT ![i] =
                   [NoTask EXCEPT !.pc = "spawned", !.caller = "repository",
                                  !.callback = "closure", !.run = task[i].run + 1]]
    /\ UNCHANGED <<incidents, config, response, retry, manager, poll, callers>>

NextStore ==
    \/ Next
    \/ \E i \in Ids, status \in Statuses, details \in DetailsArgs : UpdateStatus(i, status, details)
    \/ \E i \in Ids : Rerun(i)

SpecStore == Init /\ [][NextStore]_vars

(***************************************************************************)
(* The runner called directly (as the tests do), with any update_callback  *)
(* and with or without a correlation id.                                   *)
(***************************************************************************)
InitRunner ==
    /\ incidents = <<>>
    /\ task = [i \in Ids |-> NoTask]
    /\ config = GoodConfig
    /\ response = NoResponse
    /\ retry = NoRetry
    /\ poll = NoPoll
    /\ callers = NoCallers
    /\ manager = NoManager

\* investigate_incident from its start to the first LLM call
DirectCall(cb, cid) ==
    /\ FreeIds # {}
    /\ UNCHANGED <<incidents, config, response, retry, manager, poll, callers>>
    /\ \E i \in {SetMin(FreeIds)} :
       \E t \in {[NoTask EXCEPT !.caller = "direct", !.callback = cb, !.run = 1,
                                !.description = DescriptionOf(i),
                                !.correlation_id = IF cid = None
                                                   THEN GeneratedCorrelationId(i, 1)
                                                   ELSE cid]} :
          IF CallbackRaises(cb, "investigating")
          THEN \E out \in {RunnerFailure(cb, CallbackMsg, <<"investigating">>)} :
                  task' = [task EXCEPT ![i] = Finished(t, out)]
          ELSE task' = [task EXCEPT ![i] =
                           GraphStart([t EXCEPT !.graph_attempt = 1,
                                                !.callbacks = Called(cb, <<"investigating">>)])]

NextRunner ==
    \/ \E cb \in CallerCallbacks, cid \in CallerCorrelationIds : DirectCall(cb, cid)
    \/ \E i \in Ids : LLMReturn(i)
    \/ \E i \in Ids : LLMRaise(i)
    \/ \E i \in Ids : ToolsReturn(i)
    \/ \E i \in Ids : ToolsRaise(i)

SpecRunner == InitRunner /\ [][NextRunner]_vars

(***************************************************************************)
(* The actions of retry_async.                                             *)
(***************************************************************************)
\* retry_async up to the first invocation of the operation
RetryCall(cfg) ==
    /\ retry.pc = "idle"
    /\ UNCHANGED <<incidents, task, config, response, manager, poll, callers>>
    /\ \E r \in {[retry EXCEPT !.config = cfg, !.delay = cfg.initial_delay]} :
          retry' = IF 1 < cfg.max_attempts + 1
                   THEN [r EXCEPT !.pc = "calling", !.attempt = 1]
                   ELSE RetryExhausted(r)

\* "result = await func(...)" returns: retry_async returns the value
\* (the value of attempt k is k)
OpReturns ==
    /\ retry.pc = "calling"
    /\ UNCHANGED <<incidents, task, config, response, manager, poll, callers>>
    /\ retry' = [retry EXCEPT !.pc = "returned",
                              !.calls = Append(@, NoException),
                              !.outcome = [kind |-> "return", value |-> retry.attempt,
                                           exc |-> NoException]]

\* the operation raises: every exception is retried, whatever its class
OpRaises_NoClassification(type) ==
    /\ retry.pc = "calling"
    /\ UNCHANGED <<incidents, task, config, response, manager, poll, callers>>
    /\ \E e \in {Exc(type, retry.attempt)} :
       \E r \in {[retry EXCEPT !.last_exception = e, !.calls = Append(@, e)]} :
          retry' = IF r.attempt < r.config.max_attempts
                   THEN [r EXCEPT !.pc = "sleeping", !.sleeps = Append(@, r.delay)]
                   ELSE RetryExhausted(r)

\* the operation raises: re-raise if not retryable, sleep if attempts remain,
\* otherwise leave the loop
OpRaises(type) ==
    /\ retry.pc = "calling"
    /\ UNCHANGED <<incidents, task, config, response, manager, poll, callers>>
    /\ \E e \in {Exc(type, retry.attempt)} :
       \E r \in {[retry EXCEPT !.last_exception = e, !.calls = Append(@, e)]} :
          retry' = IF ~is_retryable(e, r.config)
                   THEN [r EXCEPT !.pc = "raised",
                                  !.outcome = [kind |-> "raise", value |-> 0, exc |-> e]]
                   ELSE IF r.attempt < r.config.max_attempts
                   THEN [r EXCEPT !.pc = "sleeping", !.sleeps = Append(@, r.delay)]
                   ELSE RetryExhausted(r)

\* asyncio.sleep(delay) returns: next delay, next attempt
SleepReturns ==
    /\ retry.pc = "sleeping"
    /\ UNCHANGED <<incidents, task, config, response, manager, poll, callers>>
    /\ retry' = [retry EXCEPT !.pc = "calling",
                              !.delay = Min(@ * retry.config.exponential_base,
                                            retry.config.max_delay),
                              !.attempt = @ + 1]

InitRetry ==
    /\ incidents = <<>>
    /\ task = [i \in Ids |-> NoTask]
    /\ config = GoodConfig
    /\ response = NoResponse
    /\ retry = NoRetry
    /\ poll = NoPoll
    /\ callers = NoCallers
    /\ manager = NoManager

NextRetry ==
    \/ \E cfg \in RetryConfigs : RetryCall(cfg)
    \/ OpReturns
    \/ \E type \in RaisedTypes : OpRaises(type)
    \/ SleepReturns

SpecRetry == InitRetry /\ [][NextRetry]_vars

(***************************************************************************)
(* The calls of MCPToolManager, one at a time (startup awaits initialize,  *)
(* shutdown awaits cleanup).                                               *)
(***************************************************************************)
\* initialize() without the early return for an initialized manager
Initialize_NoCache ==
    /\ manager.pc = "idle"
    /\ Len(manager.history) < MaxOps
    /\ UNCHANGED <<incidents, task, config, response, retry, poll, callers>>
    /\ IF manager.mcp_config = {}
       THEN manager' = EndCall([manager EXCEPT !.tools = {}, !.initialized = TRUE, !.down = {}],
                               "initialize", "return", {}, "No MCP servers configured")
       ELSE \/ manager' = InitializeFailed([manager EXCEPT !.down = {}])
            \/ manager' = [manager EXCEPT !.client = manager.clients_created + 1,
                                          !.down = {},
                                          !.clients_created = @ + 1,
                                          !.connects = @ + 1,
                                          !.pc = "connecting"]

\* initialize() up to "await self._client.get_tools()", or to its return when
\* the manager is initialized already or has no server configured
Initialize ==
    /\ manager.pc = "idle"
    /\ Len(manager.history) < MaxOps
    /\ UNCHANGED <<incidents, task, config, response, retry, poll, callers>>
    /\ IF manager.initialized
       THEN manager' = EndCall([manager EXCEPT !.down = {}], "initialize", "return", manager.tools,
                               "MCP Tool Manager already initialized")
       ELSE IF manager.mcp_config = {}
       THEN manager' = EndCall([manager EXCEPT !.tools = {}, !.initialized = TRUE, !.down = {}],
                               "initialize", "return", {}, "No MCP servers configured")
       ELSE \/ \* MultiServerMCPClient(self._config) raises
               manager' = InitializeFailed([manager EXCEPT !.down = {}])
            \/ manager' = [manager EXCEPT !.client = manager.clients_created + 1,
                                          !.down = {},
                                          !.clients_created = @ + 1,
                                          !.connects = @ + 1,
                                          !.pc = "connecting"]

\* client.get_tools() returns: every server answered, or the client library
\* left out the servers in down (the manager itself handles no server singly)
ConnectReturns(down) ==
    /\ manager.pc = "connecting"
    /\ down \subseteq manager.mcp_config
    /\ UNCHANGED <<incidents, task, config, response, retry, poll, callers>>
    /\ \E tools \in {FlatTools(manager.mcp_config \ down)} :
          manager' = EndCall([manager EXCEPT !.tools = tools, !.initialized = TRUE, !.down = down],
                             "initialize", "return", tools, "MCP tool discovery completed")

\* client.get_tools() raises because the servers in down cannot be reached
ConnectRaises(down) ==
    /\ manager.pc = "connecting"
    /\ down \subseteq manager.mcp_config
    /\ down # {}
    /\ UNCHANGED <<incidents, task, config, response, retry, poll, callers>>
    /\ manager' = InitializeFailed([manager EXCEPT !.down = down])

\* cleanup() up to "await self._client.__aexit__(...)", or to its return when
\* there is no client
Cleanup ==
    /\ manager.pc = "idle"
    /\ Len(manager.history) < MaxOps
    /\ UNCHANGED <<incidents, task, config, response, retry, poll, callers>>
    /\ IF manager.client # NoClient
       THEN manager' = [manager EXCEPT !.pc = "closing"]
       ELSE manager' = EndCall(manager, "cleanup", "return", NoTools, None)

\* __aexit__ returns
CloseReturns ==
    /\ manager.pc = "closing"
    /\ UNCHANGED <<incidents, task, config, response, retry, poll, callers>>
    /\ manager' = CleanupReset(manager, "MCP Tool Manager cleanup completed")

\* __aexit__ raises: the exception is logged, the finally branch runs
CloseRaises ==
    /\ manager.pc = "closing"
    /\ UNCHANGED <<incidents, task, config, response, retry, poll, callers>>
    /\ manager' = CleanupReset(manager, "Error during MCP Tool Manager cleanup")

InitManager ==
    /\ incidents = <<>>
    /\ task = [i \in Ids |-> NoTask]
    /\ config = GoodConfig
    /\ response = NoResponse
    /\ retry = NoRetry
    /\ poll = NoPoll
    /\ callers = NoCallers
    /\ \E mcp_config \in SUBSET Servers : manager = NewManager(mcp_config)

NextManager ==
    \/ Initialize
    \/ \E down \in SUBSET Servers : ConnectReturns(down)
    \/ \E down \in SUBSET Servers : ConnectRaises(down)
    \/ Cleanup
    \/ CloseReturns
    \/ CloseRaises

SpecManager == InitManager /\ [][NextManager]_vars

(***************************************************************************)
(* The steps of poll_incident.                                             *)
(***************************************************************************)
\* poll_incident up to its first request
PollCall(timeout, interval, callback) ==
    /\ poll.pc = "idle"
    /\ UNCHANGED <<incidents, task, config, response, retry, manager, callers>>
    /\ poll' = [poll EXCEPT !.pc = "requesting", !.timeout = timeout,
                            !.interval = interval, !.callback = callback]

\* the body of the loop after a response arrived: the timeout is checked
\* before the status
PollGetReturns_TimeoutFirst(status, took) ==
    /\ poll.pc = "requesting"
    /\ UNCHANGED <<incidents, task, config, response, retry, manager, callers>>
    /\ \E incident \in {PollResponse(status, Len(poll.responses) + 1)} :
       \E p \in {[poll EXCEPT !.now = @ + took,
                              !.responses = Append(@, incident),
                              !.callback_calls = IF poll.callback = "none" THEN @ ELSE @ + 1]} :
          poll' = IF p.callback = "raises"
                  THEN PollRaise(p, "callback failed")
                  ELSE IF p.now - p.start_time >= p.timeout
                  THEN PollRaise(p, "TimeoutError")
                  ELSE IF status \in {"completed", "failed"}
                  THEN PollReturn(p, incident)
                  ELSE [p EXCEPT !.pc = "sleeping"]

\* get_incident returns after took seconds: the callback, the check of the
\* status, the check of the timeout
PollGetReturns(status, took) ==
    /\ poll.pc = "requesting"
    /\ UNCHANGED <<incidents, task, config, response, retry, manager, callers>>
    /\ \E incident \in {PollResponse(status, Len(poll.responses) + 1)} :
       \E p \in {[poll EXCEPT !.now = @ + took,
                              !.responses = Append(@, incident),
                              !.callback_calls = IF poll.callback = "none" THEN @ ELSE @ + 1]} :
          poll' = IF p.callback = "raises"
                  THEN PollRaise(p, "callback failed")
                  ELSE IF status \in {"completed", "failed"}
                  THEN PollReturn(p, incident)
                  ELSE IF p.now - p.start_time >= p.timeout
                  THEN PollRaise(p, "TimeoutError")
                  ELSE [p EXCEPT !.pc = "sleeping"]

\* get_incident raises (not found, connection error, API error)
PollGetRaises(exc) ==
    /\ poll.pc = "requesting"
    /\ UNCHANGED <<incidents, task, config, response, retry, manager, callers>>
    /\ poll' = PollRaise(poll, exc)

\* asyncio.sleep(interval) returns: the next request
PollSleepReturns ==
    /\ poll.pc = "sleeping"
    /\ Len(poll.responses) < MaxPolls
    /\ UNCHANGED <<incidents, task, config, response, retry, manager, callers>>
    /\ poll' = [poll EXCEPT !.pc = "requesting", !.now = @ + poll.interval]

InitPoll ==
    /\ incidents = <<>>
    /\ task = [i \in Ids |-> NoTask]
    /\ config = GoodConfig
    /\ response = NoResponse
    /\ retry = NoRetry
    /\ manager = NoManager
    /\ poll = NoPoll
    /\ callers = NoCallers

NextPoll ==
    \/ \E timeout \in 0..MaxTimeout, interval \in 0..1, callback \in PollCallbacks :
          PollCall(timeout, interval, callback)
    \/ \E status \in Statuses, took \in 0..1 : PollGetReturns(status, took)
    \/ \E exc \in {"NotFoundError", "ConnectionError"} : PollGetRaises(exc)
    \/ PollSleepReturns

SpecPoll == InitPoll /\ [][NextPoll]_vars

(***************************************************************************)
(* The service with a client that fetches incidents while the background   *)
(* task runs: a fetch reads the record between two steps of the task.      *)
(***************************************************************************)
\* get_incident(incident_id)
Fetch(i) ==
    /\ response' = IF i \in DOMAIN incidents THEN Fetched(i, incidents[i]) ELSE NotFound(i)
    /\ UNCHANGED <<incidents, task, config, retry, manager, poll, callers>>

NextFetch ==
    \/ Next
    \/ \E i \in Ids : Fetch(i)

SpecFetch == Init /\ [][NextFetch]_vars

(***************************************************************************)
(* One tool manager called by several coroutines at the same time: a       *)
(* coroutine runs up to its await, where another one may enter.            *)
(***************************************************************************)
\* a call of caller c ends: recorded in the history of the manager
EndCallOf(c, m, kind, value, logged) ==
    /\ manager' = EndCall(m, callers[c].op, kind, value, logged)
    /\ callers' = [callers EXCEPT ![c] = [@ EXCEPT !.pc = "done"]]

\* what get_tools() returns after initialize() returned tools: the tool list
\* of the manager, [] if it is None
ReturnedTo(op, m, tools) ==
    IF op = "get_tools" THEN (IF m.tools = NoTools THEN {} ELSE m.tools) ELSE tools

\* caller c calls initialize(), or get_tools() (which returns the tool list
\* when the manager is initialized and awaits initialize() otherwise): the
\* code up to "await self._client.get_tools()", or to the return
EnterInitialize(c, op) ==
    /\ callers[c].pc = "none"
    /\ UNCHANGED <<incidents, task, config, response, retry, poll>>
    /\ \E me \in {[callers[c] EXCEPT !.op = op]} :
       IF manager.initialized
       THEN /\ manager' = EndCall(manager, op, "return", ReturnedTo(op, manager, manager.tools),
                                  IF op = "initialize" THEN "MCP Tool Manager already initialized"
                                  ELSE None)
            /\ callers' = [callers EXCEPT ![c] = [me EXCEPT !.pc = "done"]]
       ELSE IF manager.mcp_config = {}
       THEN /\ manager' = EndCall([manager EXCEPT !.tools = {}, !.initialized = TRUE],
                                  op, "return", {}, "No MCP servers configured")
            /\ callers' = [callers EXCEPT ![c] = [me EXCEPT !.pc = "done"]]
       ELSE \/ \* MultiServerMCPClient(self._config) raises
               /\ manager' = EndCall([manager EXCEPT !.tools = {}, !.initialized = TRUE],
                                     op, "raise", NoTools, "Failed to initialize MCP Tool Manager")
               /\ callers' = [callers EXCEPT ![c] = [me EXCEPT !.pc = "done"]]
            \/ /\ manager' = [manager EXCEPT !.client = manager.clients_created + 1,
                                             !.clients_created = @ + 1,
                                             !.connects = @ + 1]
               /\ callers' = [callers EXCEPT ![c] = [me EXCEPT !.pc = "connecting",
                                                              !.client = manager.clients_created + 1]]

\* the get_tools() of caller c's client returns: self._tools is assigned,
\* _initialized set, and the call returns
DiscoveryReturns(c, down) ==
    /\ callers[c].pc = "connecting"
    /\ down \subseteq manager.mcp_config
    /\ UNCHANGED <<incidents, task, config, response, retry, poll>>
    /\ \E m \in {[manager EXCEPT !.tools = FlatTools(manager.mcp_config \ down),
                                 !.initialized = TRUE, !.down = down]} :
          EndCallOf(c, m, "return", ReturnedTo(callers[c].op, m, m.tools),
                    "MCP tool discovery completed")

\* the get_tools() of caller c's client raises: the except branch
DiscoveryRaises(c, down) ==
    /\ callers[c].pc = "connecting"
    /\ down \subseteq manager.mcp_config
    /\ down # {}
    /\ UNCHANGED <<incidents, task, config, response, retry, poll>>
    /\ EndCallOf(c, [manager EXCEPT !.tools = {}, !.initialized = TRUE, !.down = down],
                 "raise", NoTools, "Failed to initialize MCP Tool Manager")

InitCallers ==
    /\ incidents = <<>>
    /\ task = [i \in Ids |-> NoTask]
    /\ config = GoodConfig
    /\ response = NoResponse
    /\ retry = NoRetry
    /\ poll = NoPoll
    /\ callers = NoCallers
    /\ \E mcp_config \in SUBSET Servers : manager = NewManager(mcp_config)

NextCallers ==
    \/ \E c \in Callers, op \in {"initialize", "get_tools"} : EnterInitialize(c, op)
    \/ \E c \in Callers, down \in SUBSET Servers : DiscoveryReturns(c, down)
    \/ \E c \in Callers, down \in SUBSET Servers : DiscoveryRaises(c, down)

SpecCallers == InitCallers /\ [][NextCallers]_vars

(***************************************************************************)
(* Properties.                                                             *)
(***************************************************************************)
Stored == DOMAIN incidents

IsTerminal(i) == i \in Stored /\ incidents[i].status \in Terminal

\* a finished background task
Done(i) == i \in Stored /\ task[i].pc = "done"

\* a finished direct call of investigate_incident
Returned(i) == task[i].pc = "done" /\ task[i].caller = "direct"

C2_TerminalIrreversible ==
    [][\A i \in Stored : IsTerminal(i) => incidents'[i].status = incidents[i].status]_vars

\* C3: an investigation in which every LLM call raised returns a result with
\* status failed and a non-empty error message.
C3_LLMFailureEndsFailed ==
    \A i \in Ids :
        (task[i].pc = "done" /\ task[i].outcome.kind = "return" /\ ~task[i].llm_answered)
        => /\ task[i].outcome.result.status = "failed"
           /\ Truthy(task[i].outcome.result.error)

\* C4: an incident whose status is failed has a non-empty error_message.
C4_FailedHasErrorMessage ==
    \A i \in Stored : incidents[i].status = "failed" => Truthy(incidents[i].error_message)

\* C5: completed_at is set if and only if the status is terminal.
C5_CompletedAtIffTerminal ==
    \A i \in Stored : (incidents[i].completed_at # None) <=> (incidents[i].status \in Terminal)

\* C6: error_message is present only when the status is failed, and a pending
\* incident has neither completed_at nor error_message.
C6_ErrorMessageOnlyWhenFailed ==
    \A i \in Stored :
        /\ incidents[i].error_message # None => incidents[i].status = "failed"
        /\ incidents[i].status = "pending"
              => incidents[i].completed_at = None /\ incidents[i].error_message = None

LegalTransition(from, to) ==
    \/ from = "pending" /\ to \in {"in_progress", "completed", "failed"}
    \/ from = "in_progress" /\ to \in {"completed", "failed"}

\* C7: an update_status call (the only step that changes an incident and no
\* task) changes the incident only along a legal transition; any other
\* requested change leaves the incident as it was.
C7_UpdateStatusLegality ==
    [][\A i \in Stored :
          (task' = task /\ incidents'[i] # incidents[i])
          => LegalTransition(incidents[i].status, incidents'[i].status)]_vars

\* C8: when a background investigation ends failed after its tools node
\* executed tool calls, the incident's evidence holds the tool calls and the
\* collected evidence.
C8_PartialResultsPreserved ==
    \A i \in Stored :
        (Done(i) /\ incidents[i].status = "failed" /\ task[i].tools_ran /\ task[i].caught = None)
        => /\ "tool_calls" \in DOMAIN incidents[i].evidence
           /\ "collected_evidence" \in DOMAIN incidents[i].evidence

\* C9: an exception that escapes the investigation in the background task is
\* caught at the task boundary: the task ends, and the incident is failed with
\* the exception's message as error_message and with completed_at set.
C9_TaskBoundaryCatches ==
    \A i \in Stored :
        (Done(i) /\ task[i].caught # None)
        => /\ incidents[i].status = "failed"
           /\ incidents[i].error_message = task[i].caught
           /\ incidents[i].completed_at # None

C9_Witness ==
    \E i \in Stored : Done(i) /\ task[i].caught = "LLM API timeout"
                      /\ incidents[i].error_message = "LLM API timeout"

\* C10: investigate_incident never raises to its caller: whatever step failed
\* (a callback call, the graph invocation, the extraction), a finished call
\* has returned a result.
C10_RunnerNeverRaises ==
    \A i \in Ids : Returned(i) => task[i].outcome.kind = "return"

\* the content tokens an LLM-driven investigation can derive from description d
Derived(d) ==
    {d, Report(d), ToolArgs(d), extract_root_cause(d), extract_root_cause(Report(d))}

SeqRange(seq) == {seq[k] : k \in 1..Len(seq)}

\* the content tokens held by an evidence dict
EvidenceTokens(ev) ==
    UNION {IF key \in {"reasoning", "partial_reasoning", "partial_root_cause"} THEN {ev[key]}
           ELSE IF key = "tool_calls" THEN {c.args : c \in SeqRange(ev[key])}
           ELSE IF key = "collected_evidence" THEN {e.content : e \in SeqRange(ev[key])}
           ELSE {} : key \in DOMAIN ev}

\* the content tokens held by an incident record
RecordTokens(inc) ==
    {inc.description, inc.suggested_root_cause} \cup EvidenceTokens(inc.evidence)

\* C11: with investigations of distinct incidents running concurrently, the
\* record of an incident holds no content (description, reasoning, root cause,
\* tool arguments, evidence) derived from another incident's description, and
\* no two investigations share a correlation id, whatever the interleaving.
C11_Isolation ==
    \A i \in Stored : \A j \in AllIds \ {i} :
        /\ RecordTokens(incidents[i]) \cap Derived(DescriptionOf(j)) = {}
        /\ (j \in Stored /\ task[i].correlation_id # None)
              => task[i].correlation_id # task[j].correlation_id

C11_Witness ==
    \E i \in Stored, j \in Stored :
        /\ i # j
        /\ task[i].pc = "done" /\ task[j].pc = "done"
        /\ incidents[i].suggested_root_cause = extract_root_cause(Report(DescriptionOf(i)))
        /\ incidents[j].status = "completed"
        /\ "tool_calls" \in DOMAIN incidents[j].evidence
        /\ \E c \in SeqRange(incidents[j].evidence.tool_calls) : c.args = ToolArgs(DescriptionOf(j))

\* C12: a submit that is accepted answers (incident id, pending): at the step
\* that produces the response the spawned task has taken no step, and the
\* response, once given, says pending whatever the task does afterwards.
C12_SubmitReturnsPending ==
    [][/\ (response' # response /\ response'.code = 202)
             => /\ response'.status = "pending"
                /\ response'.incident_id \in DOMAIN incidents'
                /\ task'[response'.incident_id].pc = "spawned"
       /\ (response' = response /\ response.code = 202) => response'.status = "pending"]_vars

C12_Witness ==
    /\ response.code = 202
    /\ response.status = "pending"
    /\ response.incident_id \in Stored
    /\ incidents[response.incident_id].status = "completed"

\* the tool manager is absent or not initialized, or the LLM key is absent
BadConfig == config.tool_manager # "initialized" \/ ~Truthy(config.llm_api_key)

\* C13: without an initialized tool manager or without an LLM key, a submit
\* is answered 503, no incident is created and no background task is spawned.
C13_ServiceUnavailable ==
    BadConfig =>
        /\ response.code \in {0, 503}
        /\ Stored = {}
        /\ \A i \in DOMAIN task : task[i].pc = "none"

C13_Witness ==
    /\ config.tool_manager = "initialized"
    /\ config.llm_api_key = ""
    /\ response.code = 503
    /\ Stored = {}

\* C14: whenever should_continue routes a graph state whose last message is
\* an AI message, it routes to tools if that message has at least one tool
\* call and to end if it has none.
C14_Routing ==
    \A i \in DOMAIN task :
        (task[i].routed.to # "none" /\ task[i].routed.on.type = "ai")
        => task[i].routed.to =
              (IF Len(task[i].routed.on.tool_calls) >= 1 THEN "tools" ELSE "end")

C14_Witness ==
    \E i \in DOMAIN task :
        /\ task[i].routed.on.type = "ai"
        /\ Len(task[i].routed.on.tool_calls) = 0
        /\ task[i].routed.to = "end"
        /\ \E k \in 1..Len(task[i].trace) : task[i].trace[k] = "tools"

\* C15: the node trace of a graph execution starts at agent and alternates
\* agent, tools, agent, ...: every tools step has an agent step right before
\* it and (the execution not ending at a tools step) right after it, and an
\* execution that has ended has ended at an agent step.
C15_NodeTraceAlternates ==
    \A i \in DOMAIN task :
        /\ \A k \in 1..Len(task[i].trace) :
              task[i].trace[k] = (IF k % 2 = 1 THEN "agent" ELSE "tools")
        /\ (task[i].trace # <<>> /\ Last(task[i].trace) = "tools") => task[i].pc = "llm"
        /\ (task[i].trace # <<>> /\ task[i].pc = "done") => Last(task[i].trace) = "agent"

C15_Witness ==
    \E i \in DOMAIN task :
        /\ task[i].pc = "done"
        /\ task[i].trace = <<"agent", "tools", "agent">>

\* the messages a step of task i appends to the graph state
Appended(old, new) == SubSeq(new.messages, Len(old.messages) + 1, Len(new.messages))

\* C16: the tools node never raises: every step taken at the tools node,
\* also when the tool execution fails, completes the node and continues to
\* the agent node, and after a failure with message msg the Tool messages
\* it appended have the content "Error executing tool: <msg>".
C16_ToolsNodeNeverRaises ==
    [][\A i \in DOMAIN task :
          (task[i].pc = "tools" /\ task'[i] # task[i])
          => /\ task'[i].pc = "llm"
             /\ task'[i].trace = Append(task[i].trace, "tools")
             /\ task'[i].graph_attempt = task[i].graph_attempt
             /\ Len(task'[i].messages) > Len(task[i].messages)
             /\ task'[i].tool_error # None
                   => \A m \in SeqRange(Appended(task[i], task'[i])) :
                         /\ m.type = "tool"
                         /\ m.content = "Error executing tool: " \o task'[i].tool_error]_vars

C16_Witness ==
    \E i \in DOMAIN task :
        /\ task[i].pc = "llm"
        /\ task[i].tool_error = "connection refused"
        /\ Last(task[i].messages).type = "tool"
        /\ Last(task[i].messages).content = "Error executing tool: connection refused"

\* C17: a step of the tools node appends exactly one Tool message per tool
\* call of the last AI message, the k-th appended message carrying the
\* tool_call_id of the k-th call the LLM emitted.
C17_OneToolMessagePerCall ==
    [][\A i \in DOMAIN task :
          (task[i].pc = "tools" /\ task'[i] # task[i])
          => LET calls == Last(task[i].messages).tool_calls
                 new == Appended(task[i], task'[i])
             IN /\ Len(new) = Len(calls)
                /\ \A k \in 1..Len(new) :
                      /\ new[k].type = "tool"
                      /\ new[k].tool_call_id = calls[k].id]_vars

C17_Witness ==
    \E i \in DOMAIN task :
        /\ task[i].pc = "llm"
        /\ Len(task[i].messages) = 5
        /\ Len(task[i].messages[3].tool_calls) = 2
        /\ task[i].messages[4].tool_call_id = task[i].messages[3].tool_calls[1].id
        /\ task[i].messages[5].tool_call_id = task[i].messages[3].tool_calls[2].id
        /\ task[i].messages[4].tool_call_id # task[i].messages[5].tool_call_id

\* the graph returned and the agent produced no non-empty response: the last
\* message is an AI message without tool calls, and no AI message has text
NoAgentResponse(t) ==
    /\ t.pc = "done"
    /\ t.messages # <<>>
    /\ Last(t.messages).type = "ai"
    /\ Last(t.messages).tool_calls = <<>>
    /\ \A m \in SeqRange(t.messages) : m.type = "ai" => ~Truthy(m.content)

\* C18: when the LLM emits neither tool calls nor text, so that the agent
\* produced no non-empty response, the investigation returns a failed result
\* with the error "No response from agent".
C18_NoResponseFails ==
    \A i \in DOMAIN task :
        (NoAgentResponse(task[i]) /\ task[i].outcome.kind = "return"
             /\ task[i].callback \in {"none", "mock"})
        => /\ task[i].outcome.result.status = "failed"
           /\ task[i].outcome.result.error = "No response from agent"

C20_GraphInvocationRetried ==
    [][\A i \in DOMAIN task :
          /\ task'[i].graph_attempt <= 3
          /\ task'[i].graph_attempt = task[i].graph_attempt + 1
                => /\ task'[i].pc = "llm"
                   /\ task'[i].messages = InitialMessages(task'[i].description)
                   /\ task'[i].trace = <<>>
                   /\ task'[i].investigation_status = "in_progress"
          /\ (task'[i].pc = "done" /\ task'[i].outcome.result.error = RecursionMsg)
                => task'[i].graph_attempt = 3
          /\ (task'[i].pc = "done" /\ task'[i].graph_attempt > 1 /\ task'[i].messages # <<>>
                 /\ task'[i].callback \in {"none", "mock", "closure"}
                 /\ ExtractionError(task'[i].messages) = None)
                => /\ task'[i].outcome.kind = "return"
                   /\ task'[i].outcome.result.status = "completed"
                   /\ task'[i].outcome.result.tool_calls = ExtractToolCalls(task'[i].messages)
                   /\ task'[i].outcome.result.reasoning = FinalContent(task'[i].messages)]_vars

C20_Witness ==
    \E i \in DOMAIN task :
        /\ task[i].pc = "done"
        /\ task[i].graph_attempt = 2
        /\ task[i].outcome.result.status = "completed"
        /\ task[i].trace = <<"agent">>
        /\ task[i].tools_ran

\* C21: every run of investigate_incident with an update_callback that returned
\* a result has invoked the callback exactly twice: first with "investigating",
\* then with the status of the returned result ("completed" or "failed").
C21_CallbackInvokedTwice ==
    \A i \in Ids :
       (Returned(i) /\ task[i].callback # "none" /\ task[i].outcome.kind = "return") =>
          /\ Len(task[i].callbacks) = 2
          /\ task[i].callbacks[1] = "investigating"
          /\ task[i].callbacks[2] \in {"completed", "failed"}
          /\ task[i].callbacks[2] = task[i].outcome.result.status

\* every invocation of the operation so far raised an exception that the
\* configuration classifies as retryable, and there was at least one
AllAttemptsFailedRetryable(r) ==
    /\ Len(r.calls) >= 1
    /\ \A k \in 1..Len(r.calls) :
          r.calls[k] # NoException /\ is_retryable(r.calls[k], r.config)

\* C22: when retry_async has ended and every attempt failed with a retryable
\* error, the operation was invoked exactly max_attempts times and the
\* exception raised by retry_async is the one the last attempt raised.
C22_ExhaustedSurfacesLastFailure ==
    (retry.pc \in {"returned", "raised"} /\ AllAttemptsFailedRetryable(retry)) =>
       /\ Len(retry.calls) = retry.config.max_attempts
       /\ retry.outcome.kind = "raise"
       /\ retry.outcome.exc = Last(retry.calls)
       /\ retry.outcome.exc.attempt = retry.config.max_attempts

C22_Witness ==
    /\ retry.pc = "raised"
    /\ AllAttemptsFailedRetryable(retry)
    /\ Len(retry.calls) = MaxTries
    /\ retry.calls[1].type # retry.calls[MaxTries].type

\* C23: an attempt that fails with an error the configuration does not
\* classify as retryable is the last invocation of the operation; the error is
\* what retry_async raises, and no sleep is started after it.
C23_NonRetryableSurfacesImmediately ==
    \A k \in 1..Len(retry.calls) :
       (retry.calls[k] # NoException /\ ~is_retryable(retry.calls[k], retry.config)) =>
          /\ k = Len(retry.calls)
          /\ retry.pc = "raised"
          /\ retry.outcome = [kind |-> "raise", value |-> 0, exc |-> retry.calls[k]]
          /\ Len(retry.sleeps) = k - 1

\* a non-retryable failure on the second attempt, with attempts left
C23_Witness ==
    /\ retry.pc = "raised"
    /\ Len(retry.calls) = 2
    /\ retry.config.max_attempts > 2
    /\ is_retryable(retry.calls[1], retry.config)
    /\ ~is_retryable(retry.calls[2], retry.config)

RECURSIVE Pow(_, _)
Pow(b, n) == IF n = 0 THEN 1 ELSE b * Pow(b, n - 1)

\* min(initial_delay * exponential_base^(i-1), max_delay)
BackoffDelay(cfg, i) == Min(cfg.initial_delay * Pow(cfg.exponential_base, i - 1), cfg.max_delay)

RECURSIVE SumSeq(_)
SumSeq(seq) == IF seq = <<>> THEN 0 ELSE seq[1] + SumSeq(Tail(seq))

\* C24: when the operation succeeds on attempt k, retry_async has slept k-1
\* times, the i-th sleep lasting min(initial_delay * exponential_base^(i-1),
\* max_delay) (so the total is the sum of these), and no sleep exceeds max_delay.
C24_BackoffSchedule ==
    retry.pc = "returned" =>
       /\ Len(retry.sleeps) = Len(retry.calls) - 1
       /\ \A i \in 1..Len(retry.sleeps) : retry.sleeps[i] = BackoffDelay(retry.config, i)
       /\ SumSeq(retry.sleeps) = SumSeq([i \in 1..Len(retry.sleeps) |-> BackoffDelay(retry.config, i)])
       /\ \A i \in 1..Len(retry.sleeps) : retry.sleeps[i] <= retry.config.max_delay

\* C25: a call of retry_async that has ended has invoked the operation at
\* least once, whatever the RetryConfig; and when an attempt returned, that
\* attempt is the last invocation and retry_async returned its value.
C25_ExecutesAndReturnsValue ==
    /\ retry.pc \in {"returned", "raised"} => Len(retry.calls) >= 1
    /\ \A k \in 1..Len(retry.calls) :
          retry.calls[k] = NoException =>
             /\ k = Len(retry.calls)
             /\ retry.pc = "returned"
             /\ retry.outcome = [kind |-> "return", value |-> k, exc |-> NoException]

\* C26: a call of initialize() that follows a call of initialize() returns
\* (it does not raise), returns the tool set the previous call returned, and
\* creates no client and sends no request to the servers.
C26_InitializeIdempotent ==
    \A k \in 2..Len(manager.history) :
       (manager.history[k].op = "initialize" /\ manager.history[k - 1].op = "initialize") =>
          /\ manager.history[k].kind = "return"
          /\ manager.history[k - 1].kind = "return" =>
                manager.history[k].value = manager.history[k - 1].value
          /\ manager.history[k].clients_created = manager.history[k - 1].clients_created
          /\ manager.history[k].connects = manager.history[k - 1].connects

\* two calls in a row on a manager with two servers, the first having connected
C26_Witness ==
    \E k \in 2..Len(manager.history) :
       /\ manager.history[k].op = "initialize"
       /\ manager.history[k - 1].op = "initialize"
       /\ manager.history[k - 1].value = FlatTools(Servers)
       /\ manager.history[k].value = FlatTools(Servers)
       /\ manager.history[k].connects = 1

\* the last completed call was an initialize() that created a client and asked
\* the servers for their tools
LastCallConnected ==
    /\ manager.pc = "idle"
    /\ manager.history # <<>>
    /\ Last(manager.history).op = "initialize"
    /\ Last(manager.history).connects =
          IF Len(manager.history) = 1 THEN 1
          ELSE manager.history[Len(manager.history) - 1].connects + 1

\* C27: when exactly one configured server cannot be reached during
\* initialize(), the call returns without raising and the flat tool list holds
\* the tools of every other configured server and none of that server.
C27_SingleServerFailureTolerated ==
    (LastCallConnected /\ Cardinality(Last(manager.history).down) = 1) =>
       /\ Last(manager.history).kind = "return"
       /\ manager.tools = FlatTools(manager.mcp_config \ Last(manager.history).down)
       /\ manager.initialized

\* C28: after a call of cleanup() has returned, the manager reports not
\* initialized, holds no client and no cached tools, and the next initialize()
\* of a manager with servers creates a client and connects again.
C28_CleanupResets ==
    \A k \in 1..Len(manager.history) :
       manager.history[k].op = "cleanup" =>
          /\ (k = Len(manager.history) /\ manager.pc = "idle") =>
                /\ ~manager.initialized
                /\ manager.client = NoClient
                /\ manager.tools = NoTools
          /\ (k < Len(manager.history) /\ manager.history[k + 1].op = "initialize"
                /\ manager.mcp_config # {}) =>
                manager.history[k + 1].clients_created = manager.history[k].clients_created + 1
                \/ manager.history[k + 1].logged = "Failed to initialize MCP Tool Manager"

\* C29: every result of investigate_incident with status completed has a
\* confidence of high, medium or low and a root cause that is not empty.
C29_CompletedHasVerdict ==
    \A i \in Ids :
       (Returned(i) /\ task[i].outcome.kind = "return"
           /\ task[i].outcome.result.status = "completed") =>
          /\ task[i].outcome.result.confidence \in {"high", "medium", "low"}
          /\ Truthy(task[i].outcome.result.root_cause)

\* C30: a call of update_status (the only step that writes an incident and
\* leaves every task as it is) that changes the status of an incident appends
\* exactly one InvestigationStep, carrying the new status, to its steps.
C30_UpdateStatusAppendsStep ==
    [][\A i \in Ids :
          (i \in DOMAIN incidents /\ task' = task
              /\ incidents'[i].status # incidents[i].status) =>
             /\ Len(incidents'[i].investigation_steps) = Len(incidents[i].investigation_steps) + 1
             /\ SubSeq(incidents'[i].investigation_steps, 1, Len(incidents[i].investigation_steps))
                   = incidents[i].investigation_steps
             /\ Last(incidents'[i].investigation_steps).status = incidents'[i].status]_vars

\* the number of steps of an incident with the given name
StepCount(inc, name) ==
    Cardinality({k \in 1..Len(inc.investigation_steps) :
                    inc.investigation_steps[k].step_name = name})

\* C31: an incident whose status is failed carries exactly one
\* investigation_failed step and no investigation_completed step; an incident
\* whose status is completed carries exactly one investigation_completed step
\* and no investigation_failed step.
C31_OneTerminalStep ==
    \A i \in Stored :
       /\ incidents[i].status = "failed" =>
             /\ StepCount(incidents[i], "investigation_failed") = 1
             /\ StepCount(incidents[i], "investigation_completed") = 0
       /\ incidents[i].status = "completed" =>
             /\ StepCount(incidents[i], "investigation_completed") = 1
             /\ StepCount(incidents[i], "investigation_failed") = 0

\* C32: poll_incident returns only a response whose status is completed or
\* failed, that response is the first terminal one and the last request made;
\* and a terminal response ends the call at once: it is returned (unless the
\* caller's callback raised on it) and no request follows it.
C32_PollReturnsOnTerminal ==
    /\ poll.pc = "returned" =>
          /\ poll.responses # <<>>
          /\ poll.outcome.value = Last(poll.responses)
          /\ poll.outcome.value.status \in Terminal
    /\ \A k \in 1..Len(poll.responses) :
          poll.responses[k].status \in Terminal =>
             /\ k = Len(poll.responses)
             /\ poll.pc \in {"returned", "raised"}
             /\ poll.callback # "raises" => poll.pc = "returned"

\* a terminal response at the last request, arriving after the timeout elapsed
C32_Witness ==
    /\ poll.pc = "returned"
    /\ Len(poll.responses) = MaxPolls
    /\ poll.responses[1].status = "pending"
    /\ poll.outcome.value.status = "failed"
    /\ poll.timeout >= 1
    /\ poll.now - poll.start_time >= poll.timeout

C34_VerdictFromAIMessage ==
    \A i \in Ids :
       (Returned(i) /\ task[i].outcome.kind = "return"
           /\ task[i].outcome.result.status = "completed") =>
          \E j \in 1..Len(task[i].messages) :
             /\ task[i].messages[j].type = "ai"
             /\ task[i].outcome.result.reasoning = task[i].messages[j].content
             /\ task[i].outcome.result.root_cause = extract_root_cause(task[i].messages[j].content)

\* C35: an investigation that called the LLM and in which every LLM call
\* raised has invoked the LLM exactly MaxAttempts times when it ends, within a
\* single invocation of the graph, and ends by returning a result.
C35_LLMCalledMaxAttemptsTimes ==
    \A i \in Ids :
       (Returned(i) /\ task[i].graph_attempt >= 1 /\ ~task[i].llm_answered) =>
          /\ task[i].llm_raised = MaxAttempts
          /\ task[i].graph_attempt = 1
          /\ task[i].trace = <<"agent">>

\* an investigation has ended after LLM calls that all raised
C35_Witness ==
    /\ Returned(1)
    /\ task[1].graph_attempt = 1
    /\ ~task[1].llm_answered
    /\ task[1].llm_raised = MaxAttempts
    /\ task[1].outcome.kind = "return"

\* the Tool messages among messages that answer the call with the given id
AnswersTo(messages, id) ==
    {j \in 1..Len(messages) : messages[j].type = "tool" /\ messages[j].tool_call_id = id}

\* C36: in every completed result, the evidence item of each tool call (the
\* k-th item belongs to the k-th call of the run) has the content of the Tool
\* message whose tool_call_id is the id of that call.
C36_EvidencePairsById ==
    \A i \in Ids :
       (Returned(i) /\ task[i].outcome.kind = "return"
           /\ task[i].outcome.result.status = "completed") =>
          \A k \in 1..Len(FlattenCalls(task[i].messages)) :
             \A j \in AnswersTo(task[i].messages, FlattenCalls(task[i].messages)[k].id) :
                task[i].outcome.result.evidence[k].content = task[i].messages[j].content

\* index of the last message that carries tool calls
LastCallsIdx(messages) == SetMax({j \in 1..Len(messages) : Len(messages[j].tool_calls) > 0})

\* C37: after a tools step in which the call tool_failed raised, the Tool
\* messages of that turn that answer the other calls do not carry the error
\* text.
C37_OtherCallsUntouched ==
    \A i \in Ids :
       (task[i].tool_failed # 0 /\ task[i].messages # <<>>) =>
          \A j \in 1..Len(task[i].messages) :
             (j > LastCallsIdx(task[i].messages) /\ task[i].messages[j].type = "tool"
                 /\ task[i].messages[j].tool_call_id # task[i].tool_failed)
             => task[i].messages[j].content # ToolErrorContent(ToolExcMsg)

\* C38: whatever the interleaving of the callers of one manager that was not
\* initialized, the manager creates at most one MCP client and sends at most
\* one tool discovery request.
C38_OneClientOneDiscovery ==
    /\ manager.clients_created <= 1
    /\ manager.connects <= 1

====
